---- MODULE Spec2Model ----
(***************************************************************************)
(* Model of the MusicPlayer backend: music_backend/downloader.py           *)
(* (download_song, search_and_download) and music_backend/player.py        *)
(* (play_audio_file).  One caller invokes the entry points one after the   *)
(* other; every external invocation (subprocess.run, os.startfile,         *)
(* os.makedirs, os.listdir) is one step whose outcome the environment      *)
(* chooses.                                                                *)
(***************************************************************************)
EXTENDS Integers, Sequences, FiniteSets, TLC

VARIABLES
    system,   \* platform.system().lower() of the running process
    pc,       \* position of the caller inside the running entry point
    fn,       \* the entry point of the current (or last) call
    query,    \* the query / song_name argument, a sequence of characters
    result,   \* search_and_download's local `result`
    i,        \* index of the Linux `for player in players` loop
    calls,    \* external commands invoked by the current call, with how each ended
    out,      \* messages printed by the current call
    stderr,   \* e.stderr captured from the failed download command
    ret,      \* what the current (or last) call returned
    dirExists,\* whether the output directory exists
    files,    \* entries of the output directory
    lastWorking, \* history: the method by which the directly preceding call, if
              \* it was a play_audio_file call, succeeded
    audio_files, \* find_latest_audio_file's list of (file_path, mtime)
    latest_file  \* find_latest_audio_file's local `latest_file`, <<>> while unset

vars == <<system, pc, fn, query, result, i, calls, out, stderr, ret,
          dirExists, files, lastWorking, audio_files, latest_file>>

-----------------------------------------------------------------------------
(* Bounds *)

MaxStderrLen == 2
MaxEntries == 2
MaxMtime == 2

-----------------------------------------------------------------------------
(* Inputs *)

Whitespace == {" ", "\t"}

Queries == { <<>>, <<" ", "\t">>, <<"a", "b">>, <<" ", "a", "b", "c">> }

StderrTokens ==
    { "No results found", "no results found", "Network", "connection",
      "FFmpeg", "YouTube", "rate limit", "Traceback" }

Texts == UNION { [1..n -> StderrTokens] : n \in 0..MaxStderrLen }

Systems == {"windows", "darwin", "linux", "java"}

-----------------------------------------------------------------------------
(* str.strip, str.lower, `in` *)

RECURSIVE LStrip(_)
LStrip(s) ==
    IF s # <<>> /\ Head(s) \in Whitespace THEN LStrip(Tail(s)) ELSE s

RECURSIVE RStrip(_)
RStrip(s) ==
    IF s # <<>> /\ s[Len(s)] \in Whitespace
    THEN RStrip(SubSeq(s, 1, Len(s) - 1))
    ELSE s

Strip(s) == RStrip(LStrip(s))

LowerToken(t) ==
    CASE t = "No results found" -> "no results found"
      [] t = "Network" -> "network"
      [] t = "FFmpeg" -> "ffmpeg"
      [] t = "YouTube" -> "youtube"
      [] t = "Traceback" -> "traceback"
      [] OTHER -> t

Lower(text) == [k \in DOMAIN text |-> LowerToken(text[k])]

Contains(text, pat) == \E k \in DOMAIN text : text[k] = pat

-----------------------------------------------------------------------------
(* subprocess.run: what the caller sees for each behaviour of the command *)

Behaviours == {"exit0", "nonzero", "notfound", "oserror", "never"}

subprocess_run(b, hasTimeout, check) ==
    CASE b = "exit0" -> "returned_0"
      [] b = "nonzero" -> IF check THEN "CalledProcessError" ELSE "returned_nonzero"
      [] b = "notfound" -> "FileNotFoundError"
      [] b = "oserror" -> "OSError"
      [] b = "never" -> IF hasTimeout THEN "TimeoutExpired" ELSE "blocks"

Invoked(cmd, res) == Append(calls, [cmd |-> cmd, res |-> res])

Return(v) == pc' = "idle" /\ ret' = v

-----------------------------------------------------------------------------
(* downloader.py *)

DownloadFns == {"download_song", "search_and_download"}

\* the guard without its strip() test
IsBlank_NoStrip(song_name) == song_name = <<>>

\* search_and_download's guard: not song_name or song_name.strip() == ""
IsBlank(song_name) == song_name = <<>> \/ Strip(song_name) = <<>>

\* the version check without its except subprocess.TimeoutExpired clause
VersionHandler_NoTimeoutClause(res) ==
    CASE res \in {"returned_0", "returned_nonzero"} ->
            [go |-> "continue", msg |-> <<>>]
      [] OTHER ->
            [go |-> "fail", msg |-> <<"ERROR: Failed to check spotdl version">>]

\* the version check taking a nonzero exit code of spotdl --version as a failure
VersionHandler_RequiresExit0(res) ==
    CASE res = "returned_0" ->
            [go |-> "continue", msg |-> <<>>]
      [] res = "TimeoutExpired" ->
            [go |-> "fail", msg |-> <<"ERROR: spotdl version check timed out">>]
      [] OTHER ->
            [go |-> "fail", msg |-> <<"ERROR: Failed to check spotdl version">>]

\* the except clauses of the spotdl --version check
VersionHandler(res) ==
    CASE res \in {"returned_0", "returned_nonzero"} ->
            [go |-> "continue", msg |-> <<>>]
      [] res = "TimeoutExpired" ->
            [go |-> "fail", msg |-> <<"ERROR: spotdl version check timed out">>]
      [] OTHER ->
            [go |-> "fail", msg |-> <<"ERROR: Failed to check spotdl version">>]

\* the hint chosen from e.stderr of the failed download command
HintFor(text) ==
    IF text = <<>> THEN <<>>
    ELSE IF Contains(text, "No results found")
         THEN <<"HINT: No results found">>
    ELSE IF Contains(Lower(text), "network") \/ Contains(Lower(text), "connection")
         THEN <<"HINT: Network connection issue">>
    ELSE IF Contains(Lower(text), "ffmpeg")
         THEN <<"HINT: FFmpeg issue">>
    ELSE IF Contains(Lower(text), "youtube")
         THEN <<"HINT: YouTube access issue">>
    ELSE <<>>

\* the try/except around the spotdl download command
DownloadHandler(res, text) ==
    CASE res = "returned_0" ->
            [val |-> "True", msg |-> <<"Successfully downloaded">>]
      [] res = "TimeoutExpired" ->
            [val |-> "False", msg |-> <<"ERROR: Download timed out">>]
      [] res = "CalledProcessError" ->
            [val |-> "False", msg |-> <<"ERROR: Download failed">> \o HintFor(text)]
      [] OTHER ->
            [val |-> "False", msg |-> <<"ERROR: Unexpected error">>]

\* the file spotdl writes for a query (--output output_dir --format mp3)
Downloaded(q) == [stem |-> q, ext |-> ".mp3"]

\* f.endswith(('.mp3', '.wav', '.flac', '.m4a'))
CheckedExtensions == {".mp3", ".wav", ".flac", ".m4a"}

AudioFilesFound == {f \in files : f.ext \in CheckedExtensions}

\* download_song returns v: to the caller, or into search_and_download's `result`
DownloadSongReturns(v) ==
    IF fn = "search_and_download"
    THEN /\ result' = v
         /\ IF v = "True"
            THEN pc' = "postcheck" /\ ret' = ret
            ELSE Return(v)
    ELSE /\ result' = result
         /\ Return(v)

Begin(f, q) ==
    /\ pc = "idle"
    /\ fn' = f
    /\ query' = q
    /\ calls' = <<>>
    /\ stderr' = <<>>
    /\ result' = "unset"
    /\ i' = 0
    /\ lastWorking' = IF f = "play_audio_file" THEN lastWorking ELSE "none"
    /\ audio_files' = <<>>
    /\ latest_file' = <<>>

Call_download_song ==
    \E q \in Queries :
        /\ Begin("download_song", q)
        /\ out' = <<>>
        /\ ret' = "pending"
        /\ pc' = "makedirs"
        /\ UNCHANGED <<system, dirExists, files>>

Call_search_and_download ==
    \E q \in Queries :
        /\ Begin("search_and_download", q)
        /\ IF IsBlank(q)
           THEN /\ out' = <<"ERROR: Empty or invalid song name provided">>
                /\ ret' = "False"
                /\ pc' = "idle"
           ELSE /\ out' = <<>>
                /\ ret' = "pending"
                /\ pc' = "makedirs"
        /\ UNCHANGED <<system, dirExists, files>>

\* os.makedirs(output_dir, exist_ok=True)
Makedirs ==
    /\ pc = "makedirs"
    /\ \E ok \in BOOLEAN :
          \* exist_ok=True: an existing directory is no error
          /\ dirExists => ok
          /\ IF ok
             THEN /\ dirExists' = TRUE
                  /\ pc' = "version"
                  /\ UNCHANGED <<out, ret, result>>
             ELSE /\ out' = Append(out, "ERROR: Failed to create output directory")
                  /\ DownloadSongReturns("False")
                  /\ UNCHANGED dirExists
    /\ UNCHANGED <<system, fn, query, i, calls, stderr, files, lastWorking>>
    /\ UNCHANGED <<audio_files, latest_file>>

\* subprocess.run([sys.executable, '-m', 'spotdl', '--version'], ..., timeout=10)
VersionCheck ==
    /\ pc = "version"
    /\ \E b \in Behaviours :
          LET res == subprocess_run(b, TRUE, FALSE)
              h == VersionHandler(res)
          IN  /\ calls' = Invoked("spotdl_version", res)
              /\ out' = out \o h.msg
              /\ IF h.go = "continue"
                 THEN pc' = "download" /\ UNCHANGED <<ret, result>>
                 ELSE DownloadSongReturns("False")
    /\ UNCHANGED <<system, fn, query, i, stderr, dirExists, files, lastWorking>>
    /\ UNCHANGED <<audio_files, latest_file>>

\* subprocess.run(command, capture_output=True, text=True, check=True, timeout=300)
Download ==
    /\ pc = "download"
    /\ \E b \in Behaviours, text \in Texts, wrote \in BOOLEAN, gone \in BOOLEAN :
          LET res == subprocess_run(b, TRUE, TRUE)
              h == DownloadHandler(res, text)
          IN  /\ res # "CalledProcessError" => text = <<>>
              /\ wrote => res = "returned_0" /\ Strip(query) # <<>>
              \* the output directory may be removed while the command runs
              /\ gone => ~wrote
              /\ calls' = Invoked("spotdl_download", res)
              /\ stderr' = text
              /\ dirExists' = (dirExists /\ ~gone)
              /\ files' = IF gone THEN {}
                          ELSE IF wrote THEN files \cup {Downloaded(query)}
                          ELSE files
              /\ out' = out \o h.msg
              /\ DownloadSongReturns(h.val)
    /\ UNCHANGED <<system, fn, query, i, lastWorking>>
    /\ UNCHANGED <<audio_files, latest_file>>

\* search_and_download's look at the output directory after a reported success
PostCheck ==
    /\ pc = "postcheck"
    /\ \E listed \in BOOLEAN :
          out' = IF ~dirExists
                 THEN Append(out, "WARNING: Output directory does not exist after download")
                 ELSE IF ~listed
                 THEN Append(out, "ERROR: Error checking downloaded files")
                 ELSE IF AudioFilesFound = {}
                 THEN Append(out, "WARNING: Download reported success but no audio files found")
                 ELSE out
    /\ Return(result)
    /\ UNCHANGED <<system, fn, query, result, i, calls, stderr, dirExists, files,
                   lastWorking>>
    /\ UNCHANGED <<audio_files, latest_file>>

-----------------------------------------------------------------------------
(* player.py *)

\* the Windows methods 1..5, in the order of the code
WinMethods == <<"os.startfile", "start", "vlc", "wmplayer", "powershell">>

\* players = ['mpg123', 'mpv', 'vlc', 'mplayer', 'paplay']
players == <<"mpg123", "mpv", "vlc", "mplayer", "paplay">>

\* the timeout= argument of each invocation (0: none given)
TimeoutOf(sys, cmd) ==
    IF sys = "windows"
    THEN CASE cmd = "start" -> 5
           [] cmd = "vlc" -> 3
           [] cmd = "wmplayer" -> 3
           [] cmd = "powershell" -> 5
           [] OTHER -> 0
    ELSE 0

\* the check= argument of each invocation
CheckOf(sys, cmd) ==
    IF sys = "windows" THEN cmd \in {"vlc", "powershell"} ELSE TRUE

\* what the environment can make of a method
BehavioursOf(cmd) ==
    IF cmd = "os.startfile" THEN {"exit0", "oserror"} ELSE Behaviours

\* the outcome of one method as the code sees it
Attempt(sys, cmd, b) ==
    IF cmd = "os.startfile"
    THEN (IF b = "exit0" THEN "opened" ELSE "OSError")
    ELSE subprocess_run(b, TimeoutOf(sys, cmd) > 0, CheckOf(sys, cmd))

\* the Windows methods with a timeout taken as a failure of the method
WinHandler_TimeoutFails(cmd, res) ==
    CASE res \in {"opened", "returned_0"} -> "return_true"
      [] res = "returned_nonzero" ->
            IF cmd = "start" THEN "next" ELSE "return_true"
      [] OTHER -> "next"

\* the try/except around each Windows method
WinHandler(cmd, res) ==
    CASE res \in {"opened", "returned_0"} -> "return_true"
      [] res = "TimeoutExpired" -> "return_true"
      [] res = "returned_nonzero" ->
            IF cmd = "start" THEN "next" ELSE "return_true"
      [] OTHER -> "next"

\* the try/except FileNotFoundError of the Linux loop, inside the outer try
LinuxHandler(res) ==
    CASE res = "returned_0" -> "return_true"
      [] res = "FileNotFoundError" -> "next"
      [] res = "blocks" -> "blocks"
      [] OTHER -> "outer_except"

\* subprocess.run(['afplay', file_path], check=True), inside the outer try
MacHandler(res) ==
    CASE res = "returned_0" -> "return_true"
      [] res = "blocks" -> "blocks"
      [] OTHER -> "outer_except"

\* play_audio_file without its outer except: the exception reaches the caller
OuterExcept_Missing == "raised"

\* except Exception as e: print(f'Error playing audio: {e}'); return False
OuterExcept == "False"

PlayReturns(v, cmd) ==
    /\ Return(v)
    /\ lastWorking' = IF v = "True" THEN cmd ELSE lastWorking

Call_play_audio_file ==
    \E exists \in BOOLEAN :
        /\ Begin("play_audio_file", <<>>)
        /\ IF ~exists
           THEN /\ out' = <<"Error: File not found">>
                /\ ret' = "False"
                /\ pc' = "idle"
           ELSE IF system \in {"windows", "darwin", "linux"}
           THEN /\ out' = <<"Playing">>
                /\ ret' = "pending"
                /\ pc' = system
           ELSE /\ out' = <<"Playing", "Unsupported operating system">>
                /\ ret' = "False"
                /\ pc' = "idle"
        /\ UNCHANGED <<system, dirExists, files>>

\* one Windows method: i methods have been tried and have failed
WinMethod ==
    /\ pc = "windows"
    /\ LET cmd == WinMethods[i + 1] IN
       \E b \in BehavioursOf(cmd) :
          LET res == Attempt("windows", cmd, b)
              h == WinHandler(cmd, res)
          IN  /\ calls' = Invoked(cmd, res)
              /\ IF h = "return_true"
                 THEN /\ PlayReturns("True", cmd)
                      /\ out' = Append(out, IF res = "TimeoutExpired"
                                            THEN "launched (timeout is normal)"
                                            ELSE "opened")
                      /\ i' = i
                 ELSE IF i + 1 < Len(WinMethods)
                 THEN /\ i' = i + 1
                      /\ out' = Append(out, "DEBUG: method failed")
                      /\ UNCHANGED <<pc, ret, lastWorking>>
                 ELSE /\ i' = i
                      /\ out' = out \o <<"DEBUG: method failed",
                                         "Could not play audio with any method">>
                      /\ PlayReturns("False", cmd)
    /\ UNCHANGED <<system, fn, query, result, stderr, dirExists, files>>
    /\ UNCHANGED <<audio_files, latest_file>>

\* subprocess.run(['afplay', file_path], check=True)
MacAfplay ==
    /\ pc = "darwin"
    /\ \E b \in Behaviours :
          LET res == Attempt("darwin", "afplay", b)
              h == MacHandler(res)
          IN  /\ calls' = Invoked("afplay", res)
              /\ CASE h = "return_true" ->
                        PlayReturns("True", "afplay") /\ out' = out
                   [] h = "blocks" ->
                        pc' = "blocked" /\ UNCHANGED <<ret, out, lastWorking>>
                   [] OTHER ->
                        /\ PlayReturns(OuterExcept, "afplay")
                        /\ out' = Append(out, "Error playing audio")
    /\ UNCHANGED <<system, fn, query, result, i, stderr, dirExists, files>>
    /\ UNCHANGED <<audio_files, latest_file>>

\* one turn of `for player in players`
LinuxPlayer ==
    /\ pc = "linux"
    /\ LET cmd == players[i + 1] IN
       \E b \in Behaviours :
          LET res == Attempt("linux", cmd, b)
              h == LinuxHandler(res)
          IN  /\ calls' = Invoked(cmd, res)
              /\ CASE h = "return_true" ->
                        PlayReturns("True", cmd) /\ out' = out /\ i' = i
                   [] h = "blocks" ->
                        pc' = "blocked" /\ UNCHANGED <<ret, out, lastWorking, i>>
                   [] h = "next" ->
                        IF i + 1 < Len(players)
                        THEN i' = i + 1 /\ UNCHANGED <<pc, ret, out, lastWorking>>
                        ELSE /\ i' = i
                             /\ out' = Append(out, "No suitable audio player found")
                             /\ PlayReturns("False", cmd)
                   [] OTHER ->
                        /\ i' = i
                        /\ PlayReturns(OuterExcept, cmd)
                        /\ out' = Append(out, "Error playing audio")
    /\ UNCHANGED <<system, fn, query, result, stderr, dirExists, files>>
    /\ UNCHANGED <<audio_files, latest_file>>

-----------------------------------------------------------------------------

Init ==
    /\ system \in Systems
    /\ pc = "idle"
    /\ fn = "none"
    /\ query = <<>>
    /\ result = "unset"
    /\ i = 0
    /\ calls = <<>>
    /\ out = <<>>
    /\ stderr = <<>>
    /\ ret = "none"
    /\ dirExists \in BOOLEAN
    /\ files = {}
    /\ lastWorking = "none"
    /\ audio_files = <<>>
    /\ latest_file = <<>>

Next ==
    \/ Call_download_song
    \/ Call_search_and_download
    \/ Makedirs
    \/ VersionCheck
    \/ Download
    \/ PostCheck
    \/ Call_play_audio_file
    \/ WinMethod
    \/ MacAfplay
    \/ LinuxPlayer

Spec == Init /\ [][Next]_vars

-----------------------------------------------------------------------------
(* player.py: find_latest_audio_file *)

\* the list with '.ogg' left out, as in downloader.py's check
audio_extensions_NoOgg == <<".mp3", ".wav", ".flac", ".m4a">>

\* audio_extensions = ['.mp3', '.wav', '.flac', '.m4a', '.ogg']
audio_extensions == <<".mp3", ".wav", ".flac", ".m4a", ".ogg">>

\* str.lower on the end of a file name
LowerExt(e) ==
    CASE e = ".MP3" -> ".mp3"
      [] e = ".Flac" -> ".flac"
      [] OTHER -> e

\* any(file.lower().endswith(ext) for ext in audio_extensions)
IsAudio(file) ==
    \E k \in DOMAIN audio_extensions : LowerExt(file.ext) = audio_extensions[k]

\* entries the directory can hold: what the downloader writes, and others
DirEntries ==
    {Downloaded(q) : q \in {r \in Queries : Strip(r) # <<>>}}
    \cup {[stem |-> <<"x">>, ext |-> e] :
             e \in {".MP3", ".wav", ".Flac", ".m4a", ".ogg", ".txt", "mp3"}}

\* os.listdir(directory): the entries in an order of the file system's choosing
Listings(S) ==
    {l \in [1..Cardinality(S) -> S] :
        \A a, b \in 1..Cardinality(S) : a # b => l[a] # l[b]}

\* the loop that fills audio_files; mt is what os.path.getmtime answers
BuildAudioFiles(listing, mt) ==
    LET audio == SelectSeq(listing, IsAudio)
    IN  [k \in DOMAIN audio |-> [path |-> audio[k], mtime |-> mt[audio[k]]]]

\* max(audio_files, key=lambda x: x[1]): the first of the greatest
PyMax(seq) ==
    seq[CHOOSE k \in DOMAIN seq :
            /\ \A j \in DOMAIN seq : seq[j].mtime <= seq[k].mtime
            /\ \A j \in 1..(k - 1) : seq[j].mtime < seq[k].mtime]

Call_find_latest_audio_file ==
    /\ pc = "idle"
    /\ fn' = "find_latest_audio_file"
    /\ \E listing \in Listings(files), mt \in [files -> 1..MaxMtime] :
          LET af == IF dirExists THEN BuildAudioFiles(listing, mt) ELSE <<>>
          IN  /\ audio_files' = af
              /\ IF af = <<>>
                 THEN latest_file' = <<>> /\ ret' = "None"
                 ELSE latest_file' = <<PyMax(af)>> /\ ret' = "latest_file[0]"
    /\ pc' = "idle"
    /\ query' = <<>>
    /\ calls' = <<>>
    /\ out' = <<>>
    /\ stderr' = <<>>
    /\ result' = "unset"
    /\ i' = 0
    /\ UNCHANGED <<system, dirExists, files, lastWorking>>

FindInit ==
    /\ system = "linux"
    /\ pc = "idle"
    /\ fn = "none"
    /\ query = <<>>
    /\ result = "unset"
    /\ i = 0
    /\ calls = <<>>
    /\ out = <<>>
    /\ stderr = <<>>
    /\ ret = "none"
    /\ dirExists \in BOOLEAN
    /\ files \in {S \in SUBSET DirEntries : Cardinality(S) <= MaxEntries}
    /\ ~dirExists => files = {}
    /\ lastWorking = "none"
    /\ audio_files = <<>>
    /\ latest_file = <<>>

FindNext == Call_find_latest_audio_file

FindSpec == FindInit /\ [][FindNext]_vars

-----------------------------------------------------------------------------
(* Properties *)

Returned == pc = "idle" /\ fn # "none"

OnlyWhitespace(s) == \A k \in DOMAIN s : s[k] \in Whitespace

CmdsInvoked == {calls[k].cmd : k \in DOMAIN calls}

Printed(m) == \E k \in DOMAIN out : out[k] = m

LastCall == calls[Len(calls)]

\* C1: search_and_download with an empty or whitespace-only query returns
\* False and starts no subprocess (neither the version check nor the
\* download command).
C1_BlankQueryNoSubprocess ==
    (fn = "search_and_download" /\ OnlyWhitespace(query)) =>
        /\ pc = "idle"
        /\ ret = "False"
        /\ calls = <<>>

C1_Witness ==
    /\ fn = "search_and_download"
    /\ query = <<" ", "\t">>
    /\ pc = "idle"
    /\ ret = "False"

\* C2: search_and_download called with a query shorter than 3 characters
\* returns False, whatever the download tool returned.
C2_ShortQueryFails ==
    (fn = "search_and_download" /\ pc = "idle" /\ Len(query) < 3) => ret = "False"

\* C3: when a file matching the query already exists in the output directory
\* at the call, the download routine returns True and does not invoke the
\* download tool.  (While no download of the call has exited 0 the directory
\* is as it was when the call began.)
C3_ExistingFileShortCircuits ==
    ( /\ fn \in DownloadFns
      /\ \E f \in files : f.stem = query
      /\ ~\E k \in DOMAIN calls :
            calls[k].cmd = "spotdl_download" /\ calls[k].res = "returned_0" )
    => /\ "spotdl_download" \notin CmdsInvoked
       /\ pc = "idle" => ret = "True"

\* C4: a timeout of the version check or of the download command makes the
\* download routine return False with that command's timeout message and
\* without the nonzero-exit or unexpected-error messages; a timeout message
\* is printed for a timeout only; after a version-check timeout the download
\* command is not started.
TimeoutMessage(cmd) ==
    IF cmd = "spotdl_version"
    THEN "ERROR: spotdl version check timed out"
    ELSE "ERROR: Download timed out"

OtherFailureMessages ==
    { "ERROR: Download failed", "ERROR: Unexpected error",
      "ERROR: Failed to check spotdl version",
      "ERROR: Failed to create output directory" }

C4_TimeoutIsDistinctFailure ==
    fn \in DownloadFns =>
        /\ \A k \in DOMAIN calls :
              calls[k].res = "TimeoutExpired" =>
                  /\ k = Len(calls)
                  /\ pc = "idle"
                  /\ ret = "False"
                  /\ Printed(TimeoutMessage(calls[k].cmd))
                  /\ \A m \in OtherFailureMessages : ~Printed(m)
                  /\ calls[k].cmd = "spotdl_version" =>
                        "spotdl_download" \notin CmdsInvoked
        /\ \A c \in {"spotdl_version", "spotdl_download"} :
              Printed(TimeoutMessage(c)) =>
                  \E k \in DOMAIN calls :
                      calls[k].cmd = c /\ calls[k].res = "TimeoutExpired"

C4_Witness ==
    /\ fn = "search_and_download"
    /\ pc = "idle"
    /\ calls # <<>>
    /\ LastCall.cmd = "spotdl_version"
    /\ LastCall.res = "TimeoutExpired"
    /\ ret = "False"

\* C5: once a play_audio_file call has succeeded with a method, the next
\* call tries that method first.
C5_CachedMethodTriedFirst ==
    ( /\ fn = "play_audio_file"
      /\ pc # "idle"
      /\ lastWorking # "none"
      /\ calls # <<>> )
    => calls[1].cmd = lastWorking

Chain == IF system = "windows" THEN WinMethods ELSE players

Failed(res) ==
    res \in {"FileNotFoundError", "returned_nonzero", "CalledProcessError", "OSError"}

C7_FallbackThroughWholeChain ==
    (fn = "play_audio_file" /\ system \in {"windows", "linux"} /\ calls # <<>>) =>
        /\ Len(calls) <= Len(Chain)
        /\ \A k \in DOMAIN calls : calls[k].cmd = Chain[k]
        /\ \A k \in 1..(Len(calls) - 1) : Failed(calls[k].res)
        /\ (pc = "idle" /\ Failed(LastCall.res)) => Len(calls) = Len(Chain)
        /\ (pc = "idle" /\ ret = "False") =>
              /\ Len(calls) = Len(Chain)
              /\ \A k \in DOMAIN calls : Failed(calls[k].res)

\* C8: every external invocation has a timeout, so no call is left waiting
\* for ever on a command that never exits.
C8_NoCallBlocksForEver ==
    /\ pc # "blocked"
    /\ \A k \in DOMAIN calls : calls[k].res # "blocks"

\* C9 (as claimed): play_audio_file never returns True on account of a
\* method whose invocation ended by timeout expiry.
C9_TimeoutIsFailure ==
    (fn = "play_audio_file" /\ pc = "idle" /\ ret = "True") =>
        LastCall.res # "TimeoutExpired"

\* C9 (amended): in play_audio_file a timeout can end only the Windows
\* methods start, vlc, wmplayer and powershell, and it is taken as a
\* successful launch: the call returns True at once, prints the
\* timeout-is-normal line and tries no later method.
C9_TimeoutIsLaunch ==
    fn = "play_audio_file" =>
        \A k \in DOMAIN calls :
            calls[k].res = "TimeoutExpired" =>
                /\ system = "windows"
                /\ calls[k].cmd \in {"start", "vlc", "wmplayer", "powershell"}
                /\ k = Len(calls)
                /\ pc = "idle"
                /\ ret = "True"
                /\ Printed("launched (timeout is normal)")

C9_Witness ==
    /\ fn = "play_audio_file"
    /\ pc = "idle"
    /\ Len(calls) = 3
    /\ LastCall.cmd = "vlc"
    /\ LastCall.res = "TimeoutExpired"
    /\ ret = "True"

\* C10: a download command that exits nonzero returns False, and its stderr
\* gives at most one hint by fixed priority, matched without regard to
\* letter case: no results found, else network or connection, else ffmpeg,
\* else youtube or rate limit; empty stderr gives no hint.
ClaimedHint(text) ==
    IF text = <<>> THEN <<>>
    ELSE IF Contains(Lower(text), "no results found")
         THEN <<"HINT: No results found">>
    ELSE IF Contains(Lower(text), "network") \/ Contains(Lower(text), "connection")
         THEN <<"HINT: Network connection issue">>
    ELSE IF Contains(Lower(text), "ffmpeg")
         THEN <<"HINT: FFmpeg issue">>
    ELSE IF Contains(Lower(text), "youtube") \/ Contains(Lower(text), "rate limit")
         THEN <<"HINT: YouTube access issue">>
    ELSE <<>>

Hints == {"HINT: No results found", "HINT: Network connection issue",
          "HINT: FFmpeg issue", "HINT: YouTube access issue"}

C10_HintByPriority ==
    ( /\ fn \in DownloadFns
      /\ calls # <<>>
      /\ LastCall.cmd = "spotdl_download"
      /\ LastCall.res = "CalledProcessError" )
    => /\ pc = "idle"
       /\ ret = "False"
       /\ SelectSeq(out, LAMBDA m : m \in Hints) = ClaimedHint(stderr)

\* C11: search_and_download returns True exactly when the query is not
\* blank, the directory was created, the version check completed (with any
\* exit code) and the download command exited 0 within its timeout.  A
\* completed version check is always followed by the download command, the
\* download command is never started before it, and what the look at the
\* output directory prints never changes the returned value.
VersionCompleted(res) == res \in {"returned_0", "returned_nonzero"}

PostCheckMessages ==
    { "WARNING: Output directory does not exist after download",
      "ERROR: Error checking downloaded files",
      "WARNING: Download reported success but no audio files found" }

C11_TrueIffDownloadExited0 ==
    fn = "search_and_download" =>
        /\ \A k \in DOMAIN calls :
              calls[k].cmd = "spotdl_download" =>
                  /\ k = 2
                  /\ calls[1].cmd = "spotdl_version"
                  /\ VersionCompleted(calls[1].res)
        /\ (calls # <<>> /\ VersionCompleted(calls[1].res)) =>
              (pc = "download" \/ Len(calls) = 2)
        /\ pc = "idle" =>
              ( ret = "True" <=>
                  /\ ~OnlyWhitespace(query)
                  /\ ~Printed("ERROR: Failed to create output directory")
                  /\ Len(calls) = 2
                  /\ VersionCompleted(calls[1].res)
                  /\ calls[2].res = "returned_0" )
        /\ pc = "idle" => ret \in {"True", "False"}
        /\ \A m \in PostCheckMessages : Printed(m) => (pc = "idle" /\ ret = "True")

C11_Witness ==
    /\ fn = "search_and_download"
    /\ pc = "idle"
    /\ ret = "True"
    /\ Len(calls) = 2
    /\ calls[1].res = "returned_nonzero"
    /\ Printed("WARNING: Output directory does not exist after download")

\* C12: find_latest_audio_file returns None when the directory does not
\* exist or holds no entry ending, in any letter case, with .mp3, .wav,
\* .flac, .m4a or .ogg; otherwise it returns such an entry whose modification
\* time is at least that of every other such entry, never an entry without
\* such an ending; every such entry of the directory, the downloader's files
\* among them, is considered.
EligibleEndings ==
    {".mp3", ".MP3", ".wav", ".flac", ".Flac", ".m4a", ".ogg"}

Eligible == {f \in files : f.ext \in EligibleEndings}

C12_LatestAudioFile ==
    (fn = "find_latest_audio_file" /\ pc = "idle") =>
        /\ ret \in {"None", "latest_file[0]"}
        /\ ret = "None" <=> (~dirExists \/ Eligible = {})
        /\ ret = "latest_file[0]" =>
              /\ Len(latest_file) = 1
              /\ latest_file[1].path \in Eligible
              /\ \E k \in DOMAIN audio_files : audio_files[k] = latest_file[1]
              /\ {audio_files[k].path : k \in DOMAIN audio_files} = Eligible
              /\ \A k \in DOMAIN audio_files :
                    audio_files[k].mtime <= latest_file[1].mtime

C12_Witness ==
    /\ fn = "find_latest_audio_file"
    /\ pc = "idle"
    /\ ret = "latest_file[0]"
    /\ Len(audio_files) = 2
    /\ audio_files[1].path = Downloaded(<<"a", "b">>)
    /\ audio_files[1].mtime < audio_files[2].mtime
    /\ latest_file[1].path.ext = ".ogg"
    /\ Cardinality(files) = 2

====
